---- MODULE Spec2Model ----
(***************************************************************************)
(* Shortest-path searches of the AdventOfCode solvers:                     *)
(*   2021/15 chitons.py       dijkstra over a grid of cell weights         *)
(*   2022/12 hill_climbing.py a_star over an elevation grid                *)
(*   2021/23 amphipod.py      dijkstra over amphipod game states           *)
(* One step of a search is one iteration of its `while` loop: an entry is  *)
(* popped from the priority queue and all neighbours are relaxed.          *)
(* A behaviour builds one graph object and makes up to MaxCalls top-level  *)
(* calls on it, one after the other.                                       *)
(***************************************************************************)
EXTENDS Integers, Sequences, FiniteSets, Bags, TLC

\* ---- bounds of the model ----
MaxCells == 4      \* chitons: a grid has at most this many cells (width * height)
MaxHillCells == 6  \* hill_climbing: at most this many cells, at least 2 x 2
MaxWeight == 2     \* chitons: cell weights are the digits 0..MaxWeight
MaxElev == 2       \* hill_climbing: the alphabet is cut to MaxElev letters and 'z'
MaxCalls == 2      \* top-level calls made on one graph object
MaxPops == 12      \* grid searches: iterations of the while loop followed per call
MaxInstructions == 3  \* cubes: instructions in the list given to parse_instructions
MaxCoord == 2      \* cubes: extract is called on cuboids with coordinates 0..MaxCoord
MaxWidth == 3      \* cucumber: the input has at most this many columns
MaxHeight == 3     \* cucumber: the input has at most this many lines
MaxSeaCells == 9   \* cucumber: the input has at most this many characters
MaxSteps == 12     \* cucumber: value of `step` up to which the loop is followed
MaxWideCells == 8  \* hill_climbing: cells of the grids of the wide-grid specification
MaxSplit == 4      \* Range: split is called on ranges with end points 0..MaxSplit

\* ---- python values ----
\* None is the empty tuple, an int d held in an Optional slot is <<d>>.
None == <<>>
Some(d) == <<d>>
\* python truthiness of an `int | None` value: `not old_cost`
Falsy(v) == v = None \/ v[1] = 0

VARIABLES
    prog,             \* which solver runs: "chitons", "hill" or "amphipod"
    graph,            \* the graph object the caller passes to the search
    lowest_elevations,\* hill_climbing: second value returned by parse
    fn,               \* the top-level function being executed
    start_arg,        \* start_vertex / start_point / start_state of the call
    end_point,        \* a_star: end_point argument (None or a point)
    shortest_path,    \* local dict of the running search
    priority_queue,   \* local PriorityQueue, a bag of <<distance, state>>
    solved_states,    \* amphipod: local settled set
    current,          \* entry popped by the last loop iteration
    pops,             \* number of entries popped so far in this call
    pc,               \* "idle", "loop", "returned" or "raised"
    ret,              \* map returned by the search function
    result,           \* value returned by the top-level function
    calls,            \* number of top-level calls made so far
    graph_before,     \* the graph object as it was when the call began
    efficient_grid,   \* cubes: EfficientGrid._lit_cuboids
    simple_grid,      \* cubes: Grid._lit_cubes
    add_lit,          \* cubes: the locals of a running add_lit, None outside
    parsed,           \* cubes: number of instructions taken from the list
    extracted,        \* cubes: a call of Cuboid.extract, its arguments and value
    cucumber_input,   \* cucumber: the lines that parse_file read
    cucumber_grid,    \* cucumber: the Grid object
    step              \* cucumber: local `step` of move_until_total_stop

cubes_vars == <<efficient_grid, simple_grid, add_lit, parsed, extracted>>
cucumber_vars == <<cucumber_input, cucumber_grid, step>>
search_vars == <<graph, lowest_elevations, fn, start_arg, end_point,
                 shortest_path, priority_queue, solved_states, current, pops,
                 ret, calls, graph_before>>

vars == <<prog, graph, lowest_elevations, fn, start_arg, end_point,
          shortest_path, priority_queue, solved_states, current, pops, pc,
          ret, result, calls, graph_before, cubes_vars, cucumber_vars>>

\* ---- grids ----
\* Point(x, y) is the tuple <<x, y>>; rows[y][x] mirrors list-of-rows indexing.
Point(x, y) == <<x, y>>
grid_width(rows) == Cardinality(DOMAIN rows[0])
grid_height(rows) == Cardinality(DOMAIN rows)
is_within_boundary(rows, point) ==
    /\ 0 <= point[1] /\ point[1] < grid_width(rows)
    /\ 0 <= point[2] /\ point[2] < grid_height(rows)
all_points(rows) ==
    {Point(x, y) : x \in 0..(grid_width(rows) - 1), y \in 0..(grid_height(rows) - 1)}
grid_getitem(rows, point) == rows[point[2]][point[1]]

\* tuple comparison of queue entries (distance, Point): lexicographic
PointLess(p, q) == p[1] < q[1] \/ (p[1] = q[1] /\ p[2] < q[2])
\* (faulty variant of the order of entries: the larger distance comes first)
EntryLess_mut(e, f) == e[1] > f[1] \/ (e[1] = f[1] /\ PointLess(e[2], f[2]))
EntryLess(e, f) == e[1] < f[1] \/ (e[1] = f[1] /\ PointLess(e[2], f[2]))

\* PriorityQueue.get on grid entries: the smallest entry
\* (faulty variant: the largest entry is taken)
grid_queue_get_mut(pq) ==
    CHOOSE e \in BagToSet(pq) : \A f \in BagToSet(pq) : ~EntryLess(e, f)
grid_queue_get(pq) ==
    CHOOSE e \in BagToSet(pq) : \A f \in BagToSet(pq) : ~EntryLess(f, e)
queue_put_all(pq, entries) == pq (+) SetToBag(entries)
queue_remove(pq, e) == pq (-) SetToBag({e})

\* graph.solved_points.add(current): the settled set lives on the graph object
\* (faulty variant: the set is assigned instead of extended)
Graph_settle_mut(g, point) == [g EXCEPT !.solved_points = {point}]
Graph_settle(g, point) == [g EXCEPT !.solved_points = @ \cup {point}]

\* graph.solved_points = set(): the first statement of dijkstra and of a_star
\* (faulty variant: the set left by the previous call is kept)
Graph_reset_mut(g) == g
Graph_reset(g) == [g EXCEPT !.solved_points = {}]

\* ======================= 2021/15 chitons.py =======================
Chitons_get_end_point(g) ==
    Point(grid_width(g.risk_level) - 1, grid_height(g.risk_level) - 1)

Chitons_get_neighbors(g, point) ==
    {adj \in {Point(point[1] + d[1], point[2] + d[2]) :
                  d \in {<<0, -1>>, <<1, 0>>, <<0, 1>>, <<-1, 0>>}} :
        is_within_boundary(g.risk_level, adj)}

\* (faulty variant of the test: every neighbour not yet solved is rewritten)
Chitons_improves_mut(old_cost, new_cost) == TRUE
\* the test of line 136: `not old_cost or new_cost < old_cost`
Chitons_improves(old_cost, new_cost) ==
    Falsy(old_cost) \/ new_cost < old_cost[1]

\* neighbours whose entry is rewritten while current_vertex is expanded
\* (faulty variant: the neighbours already solved are not skipped)
Chitons_updated_mut(g, sp, solved, current_distance, current_vertex) ==
    {n \in Chitons_get_neighbors(g, current_vertex) :
        Chitons_improves(sp[n], current_distance + grid_getitem(g.risk_level, n))}
Chitons_updated(g, sp, solved, current_distance, current_vertex) ==
    {n \in Chitons_get_neighbors(g, current_vertex) :
        /\ n \notin solved
        /\ Chitons_improves(sp[n], current_distance + grid_getitem(g.risk_level, n))}

\* the locals of dijkstra after lines 110-117
Chitons_locals(g, start_vertex) ==
    [shortest_path |-> [p \in all_points(g.risk_level) |->
                           IF p = start_vertex THEN Some(0) ELSE None],
     priority_queue |-> SetToBag({<<0, start_vertex>>})]

\* dijkstra lines 109-117
Chitons_dijkstra_begin(f, start_vertex) ==
    /\ prog = "chitons"
    /\ pc \in {"idle", "returned"}
    /\ calls < MaxCalls
    /\ fn' = f
    /\ start_arg' = start_vertex
    /\ graph_before' = graph
    /\ graph' = Graph_reset(graph)
    /\ shortest_path' = Chitons_locals(graph, start_vertex).shortest_path
    /\ priority_queue' = Chitons_locals(graph, start_vertex).priority_queue
    /\ pops' = 0
    /\ pc' = "loop"
    /\ calls' = calls + 1
    /\ current' = None /\ ret' = <<>> /\ result' = None
    /\ UNCHANGED <<cubes_vars, cucumber_vars, prog, lowest_elevations, end_point, solved_states>>

\* part 1 entry: get_total_risk starts the search in Point(0, 0)
Chitons_get_total_risk ==
    /\ prog = "chitons"
    /\ Chitons_dijkstra_begin("get_total_risk", Point(0, 0))

\* a direct call of dijkstra with any start vertex of the grid
Chitons_dijkstra ==
    /\ prog = "chitons"
    /\ \E start_vertex \in all_points(graph.risk_level) :
          Chitons_dijkstra_begin("dijkstra", start_vertex)

\* the body of the while loop, lines 121-140, on graph g, dict sp and queue pq
Chitons_iteration(g, sp, pq) ==
    LET e == grid_queue_get(pq)
        current_distance == e[1]
        current_vertex == e[2]
        solved == Graph_settle(g, current_vertex).solved_points
        upd == Chitons_updated(g, sp, solved, current_distance, current_vertex)
        new_cost(n) == current_distance + grid_getitem(g.risk_level, n)
    IN  [current |-> e,
         graph |-> Graph_settle(g, current_vertex),
         shortest_path |-> [p \in DOMAIN sp |->
                               IF p \in upd THEN Some(new_cost(p)) ELSE sp[p]],
         priority_queue |-> queue_put_all(queue_remove(pq, e),
                                          {<<new_cost(n), n>> : n \in upd})]

\* the while loop of lines 119-140 run until the queue is empty: the dict
\* that line 143 returns
RECURSIVE Chitons_while(_, _, _)
Chitons_while(g, sp, pq) ==
    IF pq = EmptyBag THEN sp
    ELSE LET out == Chitons_iteration(g, sp, pq)
         IN  Chitons_while(out.graph, out.shortest_path, out.priority_queue)

\* Graph(rows): a newly built graph object has an empty solved_points
Chitons_Graph(rows) == [risk_level |-> rows, solved_points |-> {}]

\* the value of dijkstra(graph, start_vertex), lines 106-143
Chitons_dijkstra_value(g, start_vertex) ==
    Chitons_while(Graph_reset(g),
                  Chitons_locals(g, start_vertex).shortest_path,
                  Chitons_locals(g, start_vertex).priority_queue)

\* one iteration of the while loop, lines 119-140
Chitons_loop ==
    /\ prog = "chitons"
    /\ pc = "loop"
    /\ priority_queue # EmptyBag
    /\ pops < MaxPops
    /\ LET out == Chitons_iteration(graph, shortest_path, priority_queue)
       IN  /\ current' = out.current
           /\ graph' = out.graph
           /\ shortest_path' = out.shortest_path
           /\ priority_queue' = out.priority_queue
    /\ pops' = pops + 1
    /\ UNCHANGED <<cubes_vars, cucumber_vars, prog, lowest_elevations, fn, start_arg, end_point,
                   solved_states, pc, ret, result, calls, graph_before>>

\* lines 143 and 150: the queue is empty, the map (and the risk) is returned
Chitons_return ==
    /\ prog = "chitons"
    /\ pc = "loop"
    /\ priority_queue = EmptyBag
    /\ ret' = shortest_path
    /\ result' = IF fn = "get_total_risk"
                 THEN shortest_path[Chitons_get_end_point(graph)]
                 ELSE None
    /\ pc' = "returned"
    /\ UNCHANGED <<cubes_vars, cucumber_vars, prog, graph, lowest_elevations, fn, start_arg, end_point,
                   shortest_path, priority_queue, solved_states, current,
                   pops, calls, graph_before>>

\* ======================= 2022/12 hill_climbing.py =======================
ascii_lowercase ==
    <<"a", "b", "c", "d", "e", "f", "g", "h", "i", "j", "k", "l", "m",
      "n", "o", "p", "q", "r", "s", "t", "u", "v", "w", "x", "y", "z">>
\* TRANSLATE with the letters between the first MaxElev ones and 'z' left out
TRANSLATE == SubSeq(ascii_lowercase, 1, MaxElev) \o <<"z">>
TRANSLATE_index(char) == (CHOOSE i \in 1..Len(TRANSLATE) : TRANSLATE[i] = char) - 1

\* parse, lines 72-96: data[y][x] is the character at column x of line y
Hill_parse(data) ==
    LET pts == all_points(data)
        val(p) == IF grid_getitem(data, p) = "S" THEN TRANSLATE_index("a")
                  ELSE IF grid_getitem(data, p) = "E" THEN TRANSLATE_index("z")
                  ELSE TRANSLATE_index(grid_getitem(data, p))
    IN  [grid |-> [elevation |-> [y \in DOMAIN data |->
                                    [x \in DOMAIN data[y] |-> val(Point(x, y))]],
                   start |-> CHOOSE p \in pts : grid_getitem(data, p) = "S",
                   end |-> CHOOSE p \in pts : grid_getitem(data, p) = "E",
                   solved_points |-> {}],
         lowest_elevations |-> {p \in pts : grid_getitem(data, p) \in {"S", "a"}}]

\* the elevation rule of line 61
\* (faulty variant: the inverted flag is ignored)
Hill_can_step_mut(g, point, adj, inverted) ==
    grid_getitem(g.elevation, adj) - grid_getitem(g.elevation, point) <= 1
Hill_can_step(g, point, adj, inverted) ==
    \/ ~inverted /\ grid_getitem(g.elevation, adj) - grid_getitem(g.elevation, point) <= 1
    \/ inverted /\ grid_getitem(g.elevation, point) - grid_getitem(g.elevation, adj) <= 1

\* Grid.get_neighbors, lines 56-62: the valid adjacent points, in list order
Hill_get_neighbors(g, point, inverted) ==
    LET adjs == [i \in 1..4 |->
                    LET d == <<<<0, -1>>, <<1, 0>>, <<0, 1>>, <<-1, 0>>>>[i]
                    IN  Point(point[1] + d[1], point[2] + d[2])]
        ok(adj) == is_within_boundary(g.elevation, adj)
                   /\ Hill_can_step(g, point, adj, inverted)
    IN  SelectSeq(adjs, ok)

\* the test of line 129: `not old_cost or new_cost < old_cost`
\* (faulty variant: every relaxation overwrites the entry)
Hill_improves_mut(old_cost, new_cost) == TRUE
Hill_improves(old_cost, new_cost) ==
    Falsy(old_cost) \/ new_cost < old_cost[1]

\* line 133: reaching end_point leaves the `for` loop
Hill_found_end(neighbor, target) == neighbor = target

\* the `for` loop of lines 118-136 from the i-th neighbour on; the result is
\* the dict and the queue as the loop leaves them
RECURSIVE Hill_relax(_, _, _, _, _, _, _)
Hill_relax(nbrs, i, sp, pq, solved, current_distance, target) ==
    IF i > Len(nbrs) THEN [shortest_path |-> sp, priority_queue |-> pq]
    ELSE
        LET neighbor == nbrs[i]
            distance == 1
            new_cost == current_distance + distance
        IN  IF neighbor \in solved
            THEN Hill_relax(nbrs, i + 1, sp, pq, solved, current_distance, target)
            ELSE IF Hill_improves(sp[neighbor], new_cost)
            THEN LET sp2 == [sp EXCEPT ![neighbor] = Some(new_cost)]
                 IN  IF Hill_found_end(neighbor, target)
                     THEN [shortest_path |-> sp2, priority_queue |-> pq]
                     ELSE Hill_relax(nbrs, i + 1, sp2,
                                     queue_put_all(pq, {<<new_cost, neighbor>>}),
                                     solved, current_distance, target)
            ELSE Hill_relax(nbrs, i + 1, sp, pq, solved, current_distance, target)

\* the locals of a_star after lines 103-110
Hill_locals(g, start_point) ==
    [shortest_path |-> [p \in all_points(g.elevation) |->
                           IF p = start_point THEN Some(0) ELSE None],
     priority_queue |-> SetToBag({<<0, start_point>>})]

\* a_star lines 102-110
Hill_a_star_begin(f, start_point, target) ==
    /\ prog = "hill"
    /\ pc \in {"idle", "returned", "raised"}
    /\ calls < MaxCalls
    /\ fn' = f
    /\ start_arg' = start_point
    /\ end_point' = target
    /\ graph_before' = graph
    /\ graph' = Graph_reset(graph)
    /\ shortest_path' = Hill_locals(graph, start_point).shortest_path
    /\ priority_queue' = Hill_locals(graph, start_point).priority_queue
    /\ pops' = 0
    /\ pc' = "loop"
    /\ calls' = calls + 1
    /\ current' = None /\ ret' = <<>> /\ result' = None
    /\ UNCHANGED <<cubes_vars, cucumber_vars, prog, lowest_elevations, solved_states>>

\* part 1, line 145
Hill_find_shortest_path ==
    /\ prog = "hill"
    /\ Hill_a_star_begin("find_shortest_path", graph.start, graph.end)

\* part 2, line 160
Hill_find_shortest_path_from_any_start ==
    /\ prog = "hill"
    /\ Hill_a_star_begin("find_shortest_path_from_any_start", graph.end, None)

\* the body of the while loop, lines 114-136, on graph g, dict sp and queue pq
Hill_iteration(g, sp, pq, target) ==
    LET e == grid_queue_get(pq)
        current_distance == e[1]
        solved == Graph_settle(g, e[2]).solved_points
        out == Hill_relax(Hill_get_neighbors(g, e[2], target = None), 1,
                          sp, queue_remove(pq, e), solved, current_distance, target)
    IN  [current |-> e,
         graph |-> Graph_settle(g, e[2]),
         shortest_path |-> out.shortest_path,
         priority_queue |-> out.priority_queue]

\* the while loop of lines 112-136 run until the queue is empty: the dict
\* that line 139 returns
RECURSIVE Hill_while(_, _, _, _)
Hill_while(g, sp, pq, target) ==
    IF pq = EmptyBag THEN sp
    ELSE LET out == Hill_iteration(g, sp, pq, target)
         IN  Hill_while(out.graph, out.shortest_path, out.priority_queue, target)

\* Grid(parsed, start, end): a newly built grid has an empty solved_points
Hill_Grid(elevation, start, end) ==
    [elevation |-> elevation, start |-> start, end |-> end, solved_points |-> {}]

\* the value of a_star(graph, start_point, end_point), lines 99-139
Hill_a_star_value(g, start_point, target) ==
    Hill_while(Graph_reset(g),
               Hill_locals(g, start_point).shortest_path,
               Hill_locals(g, start_point).priority_queue, target)

\* one iteration of the while loop, lines 112-136
Hill_loop ==
    /\ prog = "hill"
    /\ pc = "loop"
    /\ priority_queue # EmptyBag
    /\ pops < MaxPops
    /\ LET out == Hill_iteration(graph, shortest_path, priority_queue, end_point)
       IN  /\ current' = out.current
           /\ graph' = out.graph
           /\ shortest_path' = out.shortest_path
           /\ priority_queue' = out.priority_queue
    /\ pops' = pops + 1
    /\ UNCHANGED <<cubes_vars, cucumber_vars, prog, lowest_elevations, fn, start_arg, end_point,
                   solved_states, pc, ret, result, calls, graph_before>>

\* min() of line 161 over the lowest points that have a distance
Hill_reached_lowest(paths) == {p \in lowest_elevations : paths[p] # None}
Hill_min(paths) ==
    LET ds == {paths[p][1] : p \in Hill_reached_lowest(paths)}
    IN  CHOOSE d \in ds : \A o \in ds : d <= o

\* line 139 and the lookup of line 146 or the min() of line 161
Hill_return ==
    /\ prog = "hill"
    /\ pc = "loop"
    /\ priority_queue = EmptyBag
    /\ ret' = shortest_path
    /\ IF fn = "find_shortest_path"
       THEN result' = shortest_path[graph.end] /\ pc' = "returned"
       ELSE IF Hill_reached_lowest(shortest_path) = {}
       THEN result' = None /\ pc' = "raised"     \* min() of an empty sequence
       ELSE result' = Some(Hill_min(shortest_path)) /\ pc' = "returned"
    /\ UNCHANGED <<cubes_vars, cucumber_vars, prog, graph, lowest_elevations, fn, start_arg, end_point,
                   shortest_path, priority_queue, solved_states, current,
                   pops, calls, graph_before>>

\* ======================= 2021/23 amphipod.py =======================
\* a string is the tuple of its characters
Range(seq) == {seq[i] : i \in 1..Len(seq)}
\* character order of the locations: digits sort before letters
LOCATION_ORDER ==
    <<"1", "2", "3", "4", "5", "6", "7", "a", "b", "c", "d", "e", "f", "g", "h">>
Ord(char) == CHOOSE i \in 1..Len(LOCATION_ORDER) : LOCATION_ORDER[i] = char
RECURSIVE sorted(_)
sorted(seq) ==
    IF seq = <<>> THEN <<>>
    ELSE LET i == CHOOSE k \in 1..Len(seq) : \A j \in 1..Len(seq) : Ord(seq[k]) <= Ord(seq[j])
         IN  <<seq[i]>> \o sorted(SubSeq(seq, 1, i - 1) \o SubSeq(seq, i + 1, Len(seq)))

\* class Amphipod: the movement cost of A, B, C, D
Amphipod == <<1, 10, 100, 1000>>
HALLWAY == <<"1", "2", "3", "4", "5", "6", "7">>
CROSSROAD == <<"2", "3", "4", "5", "6", "a", "c", "e", "g">>
MOVEMENT ==
    ("a" :> <<"2", "3", "b">>) @@ ("b" :> <<"a">>) @@
    ("c" :> <<"3", "4", "d">>) @@ ("d" :> <<"c">>) @@
    ("e" :> <<"4", "5", "f">>) @@ ("f" :> <<"e">>) @@
    ("g" :> <<"5", "6", "h">>) @@ ("h" :> <<"g">>) @@
    ("1" :> <<"2">>) @@ ("2" :> <<"1", "3", "a">>) @@
    ("3" :> <<"2", "4", "a", "c">>) @@ ("4" :> <<"3", "5", "c", "e">>) @@
    ("5" :> <<"4", "6", "e", "g">>) @@ ("6" :> <<"7", "5", "g">>) @@
    ("7" :> <<"6">>)
\* ROOMS[t] is the destination room of the t-th amphipod type
ROOMS == <<<<"a", "b">>, <<"c", "d">>, <<"e", "f">>, <<"g", "h">>>>
GRAPH == [hallway |-> HALLWAY, crossroad |-> CROSSROAD,
          movement |-> MOVEMENT, rooms |-> ROOMS]

\* GameState: __contains__, count, __getitem__ (the type 1..4 of the amphipod
\* at a location, None where nobody stands) and is_end_state
GameState_contains(state, item) == item \in Range(state.amps)
GameState_count(state) == Len(state.amps)
GameState_index(state, item) == (CHOOSE i \in 1..Len(state.amps) : state.amps[i] = item) - 1
GameState_getitem(state, item) ==
    IF ~GameState_contains(state, item) THEN None
    ELSE (GameState_index(state, item) \div (GameState_count(state) \div Len(Amphipod))) + 1
\* (faulty variant of is_end_state: no state counts as an end state)
GameState_is_end_state_mut(state) == FALSE
GameState_is_end_state(state) == Cardinality(state.finished) = GameState_count(state)
\* __lt__: states are ordered by the number of finished locations
GameState_lt(state, other) == Cardinality(state.finished) < Cardinality(other.finished)

\* the locations of a room added to `finished`, walking the room from its
\* bottom until a location without the right amphipod (make_state lines 84-87)
RECURSIVE Graph_finished_of(_, _, _)
Graph_finished_of(room, def_room, i) ==
    IF i < 1 \/ room[i] \notin Range(def_room) THEN {}
    ELSE {room[i]} \cup Graph_finished_of(room, def_room, i - 1)

\* Graph.make_state, lines 71-88
Graph_make_state(g, definition) ==
    LET n == Len(definition) \div Len(Amphipod)
        sorted_def == [t \in 1..Len(Amphipod) |->
                          sorted(SubSeq(definition, (t - 1) * n + 1, t * n))]
        joined == [i \in 1..Len(definition) |->
                      sorted_def[((i - 1) \div n) + 1][((i - 1) % n) + 1]]
    IN  [amps |-> joined,
         finished |-> UNION {Graph_finished_of(g.rooms[t], sorted_def[t], Len(g.rooms[t])) :
                                t \in 1..Len(Amphipod)}]

\* Graph.move_amp, lines 90-95 (the assert is Graph_move_allowed)
Graph_move_allowed(state, new_loc) == ~GameState_contains(state, new_loc)
Graph_move_amp(g, state, old_loc, new_loc) ==
    LET idx == GameState_index(state, old_loc) + 1
    IN  Graph_make_state(g, [state.amps EXCEPT ![idx] = new_loc])

\* (faulty variant of get_cost: the cell in front of a room is not counted)
Graph_get_cost_mut(g, start, end) == 1
\* Graph.get_cost, lines 97-101
Graph_get_cost(g, start, end) ==
    IF start \in Range(g.crossroad) /\ end \in Range(g.crossroad) THEN 2 ELSE 1

\* (faulty variant of has_clear_room: the room always counts as clear)
Graph_has_clear_room_mut(g, state, amp) == TRUE
\* Graph.has_clear_room, lines 103-108
Graph_has_clear_room(g, state, amp) ==
    \A location \in Range(g.rooms[amp]) :
        ~(GameState_contains(state, location) /\ GameState_getitem(state, location) # amp)

\* (faulty variant of the loop: a blocked adjacent location is not skipped)
RECURSIVE Graph_scan_mut(_, _, _, _, _, _)
Graph_scan_mut(g, state, cur, i, queue, valid_paths) ==
    IF i > Len(g.movement[cur]) THEN [queue |-> queue, valid_paths |-> valid_paths]
    ELSE LET adjacent == g.movement[cur][i]
         IN  IF adjacent \in DOMAIN valid_paths
             THEN Graph_scan_mut(g, state, cur, i + 1, queue, valid_paths)
             ELSE Graph_scan_mut(g, state, cur, i + 1, Append(queue, adjacent),
                                 valid_paths @@
                                 (adjacent :> valid_paths[cur] + Graph_get_cost(g, cur, adjacent)))
\* the `for adjacent` loop of lines 126-132 from the i-th adjacent on
RECURSIVE Graph_scan(_, _, _, _, _, _)
Graph_scan(g, state, cur, i, queue, valid_paths) ==
    IF i > Len(g.movement[cur]) THEN [queue |-> queue, valid_paths |-> valid_paths]
    ELSE LET adjacent == g.movement[cur][i]
         IN  IF GameState_contains(state, adjacent) \/ adjacent \in DOMAIN valid_paths
             THEN Graph_scan(g, state, cur, i + 1, queue, valid_paths)
             ELSE Graph_scan(g, state, cur, i + 1, Append(queue, adjacent),
                             valid_paths @@
                             (adjacent :> valid_paths[cur] + Graph_get_cost(g, cur, adjacent)))

\* the `while queue` loop of lines 124-132
RECURSIVE Graph_valid_paths(_, _, _, _)
Graph_valid_paths(g, state, queue, valid_paths) ==
    IF queue = <<>> THEN valid_paths
    ELSE LET out == Graph_scan(g, state, Head(queue), 1, Tail(queue), valid_paths)
         IN  Graph_valid_paths(g, state, out.queue, out.valid_paths)

\* Graph.generate_movement, lines 110-136: the set of (end, cost) yielded
Graph_generate_movement(g, state, location) ==
    LET amp == GameState_getitem(state, location)
        in_hallway == location \in Range(g.hallway)
        valid_paths == Graph_valid_paths(g, state, <<location>>, (location :> 0))
    IN  IF in_hallway /\ ~Graph_has_clear_room(g, state, amp) THEN {}
        ELSE LET target == IF ~in_hallway THEN g.hallway ELSE g.rooms[amp]
             IN  {<<end, valid_paths[end] * Amphipod[amp]>> :
                     end \in DOMAIN valid_paths \cap Range(target)}

\* (faulty variant of get_neighbors: the finished amphipods are moved too)
Graph_get_neighbors_mut(g, state) ==
    UNION {{<<Graph_move_amp(g, state, location, m[1]), m[2]>> :
                m \in Graph_generate_movement(g, state, location)} :
           location \in Range(state.amps)}
\* Graph.get_neighbors, lines 138-146: the set of (state, cost) yielded; two
\* different moves never give the same state, so the order of the yields
\* does not matter to the relaxation
Graph_get_neighbors(g, state) ==
    UNION {{<<Graph_move_amp(g, state, location, m[1]), m[2]>> :
                m \in Graph_generate_movement(g, state, location)} :
           location \in Range(state.amps) \ state.finished}

\* tuple comparison of queue entries (distance, GameState)
Amphipod_entry_less(e, f) ==
    e[1] < f[1] \/ (e[1] = f[1] /\ e[2] # f[2] /\ GameState_lt(e[2], f[2]))
\* the entries PriorityQueue.get may return: those with no smaller entry
\* (faulty variant: any entry may be returned)
Amphipod_queue_heads_mut(pq) == BagToSet(pq)
Amphipod_queue_heads(pq) ==
    {e \in BagToSet(pq) : \A f \in BagToSet(pq) : ~Amphipod_entry_less(f, e)}

\* shortest_path.get(neighbor, None)
Amphipod_dict_get(sp, key) == IF key \in DOMAIN sp THEN Some(sp[key]) ELSE None

\* (faulty variant of the test: every neighbour not yet solved is rewritten)
Amphipod_improves_mut(old_cost, new_cost) == TRUE
\* the test of line 293: `not old_cost or new_cost < old_cost`
Amphipod_improves(old_cost, new_cost) ==
    Falsy(old_cost) \/ new_cost < old_cost[1]

\* neighbours (with their new cost) rewritten while current_state is expanded
Amphipod_updated(g, sp, solved, current_distance, current_state) ==
    {<<nb[1], current_distance + nb[2]>> : nb \in
        {nb \in Graph_get_neighbors(g, current_state) :
            /\ nb[1] \notin solved
            /\ Amphipod_improves(Amphipod_dict_get(sp, nb[1]), current_distance + nb[2])}}

\* min() of line 305 over the end states of the returned map
Amphipod_end_costs(paths) ==
    {paths[state] : state \in {st \in DOMAIN paths : GameState_is_end_state(st)}}
Amphipod_min(costs) == CHOOSE c \in costs : \A o \in costs : c <= o

\* get_least_expensive_path line 304 and dijkstra lines 267-273
Amphipod_get_least_expensive_path ==
    /\ prog = "amphipod"
    /\ pc \in {"idle", "returned", "raised"}
    /\ calls < MaxCalls
    /\ fn' = "get_least_expensive_path"
    /\ graph_before' = graph
    /\ solved_states' = {}
    /\ shortest_path' = (start_arg :> 0)
    /\ priority_queue' = SetToBag({<<0, start_arg>>})
    /\ pops' = 0
    /\ pc' = "loop"
    /\ calls' = calls + 1
    /\ current' = None /\ ret' = <<>> /\ result' = None
    /\ UNCHANGED <<cubes_vars, cucumber_vars, prog, graph, lowest_elevations, start_arg, end_point>>

\* lines 277-280: the popped state is an end state, dijkstra returns at once
\* and get_least_expensive_path takes the min() of line 305
Amphipod_loop_end ==
    /\ prog = "amphipod"
    /\ pc = "loop"
    /\ \E e \in Amphipod_queue_heads(priority_queue) :
          /\ GameState_is_end_state(e[2])
          /\ current' = e
          /\ priority_queue' = queue_remove(priority_queue, e)
          /\ ret' = (e[2] :> e[1])
          /\ result' = Some(Amphipod_min(Amphipod_end_costs((e[2] :> e[1]))))
    /\ pops' = pops + 1
    /\ pc' = "returned"
    /\ UNCHANGED <<cubes_vars, cucumber_vars, prog, graph, lowest_elevations, fn, start_arg, end_point,
                   shortest_path, solved_states, calls, graph_before>>

\* lines 277-297: the popped state is settled and its neighbours are relaxed
Amphipod_loop ==
    /\ prog = "amphipod"
    /\ pc = "loop"
    /\ \E e \in Amphipod_queue_heads(priority_queue) :
          /\ ~GameState_is_end_state(e[2])
          /\ LET solved == solved_states \cup {e[2]}
                 upd == Amphipod_updated(graph, shortest_path, solved, e[1], e[2])
             IN  /\ current' = e
                 /\ solved_states' = solved
                 /\ shortest_path' =
                       [st \in DOMAIN shortest_path \cup {u[1] : u \in upd} |->
                           IF \E u \in upd : u[1] = st
                           THEN (CHOOSE u \in upd : u[1] = st)[2]
                           ELSE shortest_path[st]]
                 /\ priority_queue' =
                       queue_put_all(queue_remove(priority_queue, e),
                                     {<<u[2], u[1]>> : u \in upd})
    /\ pops' = pops + 1
    /\ UNCHANGED <<cubes_vars, cucumber_vars, prog, graph, lowest_elevations, fn, start_arg, end_point,
                   pc, ret, result, calls, graph_before>>

\* line 299 and the min() of line 305: the queue is empty
Amphipod_return ==
    /\ prog = "amphipod"
    /\ pc = "loop"
    /\ priority_queue = EmptyBag
    /\ ret' = shortest_path
    /\ IF Amphipod_end_costs(shortest_path) = {}
       THEN result' = None /\ pc' = "raised"     \* min() of an empty sequence
       ELSE result' = Some(Amphipod_min(Amphipod_end_costs(shortest_path)))
            /\ pc' = "returned"
    /\ UNCHANGED <<cubes_vars, cucumber_vars, prog, graph, lowest_elevations, fn, start_arg, end_point,
                   shortest_path, priority_queue, solved_states, current,
                   pops, calls, graph_before>>

\* a caller iterates graph.get_neighbors(state) and goes on with the state
\* of one of the (state, cost) pairs it yields; `current` holds that state
Graph_get_neighbors_next ==
    /\ prog = "game"
    /\ \E nb \in Graph_get_neighbors(graph, current[1]) :
          current' = Some(nb[1])
    /\ UNCHANGED <<cubes_vars, cucumber_vars, prog, graph, lowest_elevations, fn,
                   start_arg, end_point, shortest_path, priority_queue,
                   solved_states, pops, pc, ret, result, calls, graph_before>>

\* ======================= 2021/22 cubes.py =======================
\* class Range: a record of min and max, both included
Range_init(min, max) == [min |-> min, max |-> max]
Range_len(self) == self.max - self.min + 1
\* Range.__contains__ for an int and for a Range
Range_contains_int(self, other) == self.min <= other /\ other <= self.max
Range_contains(self, other) ==
    IF self = other THEN TRUE
    ELSE Range_contains_int(self, other.min) /\ Range_contains_int(self, other.max)
\* (faulty variant of overlaps: ranges that share only an end point do not overlap)
Range_overlaps_mut(self, other) == self.max > other.min /\ self.min < other.max
Range_overlaps(self, other) == self.max >= other.min /\ self.min <= other.max
builtin_max(a, b) == IF a >= b THEN a ELSE b
builtin_min(a, b) == IF a <= b THEN a ELSE b
Range_get_intersection(self, other) ==
    IF self = other THEN self
    ELSE LET new_range_min == builtin_max(self.min, other.min)
             new_range_max == builtin_min(self.max, other.max)
         IN  IF new_range_min > new_range_max THEN None
             ELSE Range_init(new_range_min, new_range_max)
\* Range.split, lines 70-83: the list of the parts of self, the intersection
\* with item among them
\* (faulty variant: the part after the intersection starts on its last point)
Range_split_mut(self, item) ==
    IF self = item THEN <<self>>
    ELSE LET intersection == Range_get_intersection(self, item)
         IN  IF self.min = intersection.min
             THEN <<intersection, Range_init(intersection.max, self.max)>>
             ELSE IF self.max = intersection.max
             THEN <<Range_init(self.min, intersection.min - 1), intersection>>
             ELSE <<Range_init(self.min, intersection.min - 1), intersection,
                    Range_init(intersection.max, self.max)>>
Range_split(self, item) ==
    IF self = item THEN <<self>>
    ELSE LET intersection == Range_get_intersection(self, item)
         IN  IF self.min = intersection.min
             THEN <<intersection, Range_init(intersection.max + 1, self.max)>>
             ELSE IF self.max = intersection.max
             THEN <<Range_init(self.min, intersection.min - 1), intersection>>
             ELSE <<Range_init(self.min, intersection.min - 1), intersection,
                    Range_init(intersection.max + 1, self.max)>>

\* Range.__post_init__: the assertion every new Range has to pass
Range_post_init(min, max) == min <= max
\* r.split(item) raises AssertionError: by the assertion of split on the
\* intersection, or by __post_init__ of one of the ranges it builds
Range_split_raises(self, item) ==
    IF self = item THEN FALSE
    ELSE \/ Range_get_intersection(self, item) = None
         \/ \E i \in DOMAIN Range_split(self, item) :
                ~Range_post_init(Range_split(self, item)[i].min,
                                 Range_split(self, item)[i].max)

\* class Cuboid: a record of the ranges x, y, z; Voxel(x, y, z) is a tuple
Voxel(x, y, z) == <<x, y, z>>
Cuboid(x, y, z) == [x |-> x, y |-> y, z |-> z]
Cuboid_len(self) == Range_len(self.x) * Range_len(self.y) * Range_len(self.z)
\* Cuboid.__contains__ for a Cuboid item
Cuboid_contains(self, item) ==
    /\ Range_contains(self.x, item.x)
    /\ Range_contains(self.y, item.y)
    /\ Range_contains(self.z, item.z)
Cuboid_overlaps(self, other) ==
    IF self = other THEN TRUE
    ELSE /\ Range_overlaps(self.x, other.x)
         /\ Range_overlaps(self.y, other.y)
         /\ Range_overlaps(self.z, other.z)
Cuboid_get_intersection(self, other) ==
    IF self = other THEN self
    ELSE IF \/ Range_get_intersection(self.x, other.x) = None
            \/ Range_get_intersection(self.y, other.y) = None
            \/ Range_get_intersection(self.z, other.z) = None
    THEN None
    ELSE Cuboid(Range_get_intersection(self.x, other.x),
                Range_get_intersection(self.y, other.y),
                Range_get_intersection(self.z, other.z))
\* Cuboid.extract, lines 119-135; the assert of line 125 is Cuboid_extract_allowed
Cuboid_extract_allowed(self, other) ==
    self = other \/ Cuboid_get_intersection(self, other) # None
Cuboid_extract(self, other) ==
    IF self = other THEN {}
    ELSE LET intersection == Cuboid_get_intersection(self, other)
             split_x == Range_split(self.x, intersection.x)
             split_y == Range_split(self.y, intersection.y)
             split_z == Range_split(self.z, intersection.z)
         IN  {new_cuboid \in {Cuboid(split_x[i], split_y[j], split_z[k]) :
                                 i \in DOMAIN split_x, j \in DOMAIN split_y,
                                 k \in DOMAIN split_z} :
                 new_cuboid # intersection}

\* the list `queue` of add_lit is kept as the list of the sets it was extended
\* with: the elements of one set stand in the order the set was iterated in,
\* which is not fixed, so pop() takes any element of the last set
queue_pop_choices(queue) == queue[Len(queue)]
queue_after_pop(queue, new_cuboid) ==
    IF queue[Len(queue)] = {new_cuboid} THEN SubSeq(queue, 1, Len(queue) - 1)
    ELSE [queue EXCEPT ![Len(queue)] = @ \ {new_cuboid}]
queue_extend(queue, new_cuboids) ==
    IF new_cuboids = {} THEN queue ELSE Append(queue, new_cuboids)

\* the `for lit_cuboid` loop of add_lit, lines 150-164, for new_cuboid: the
\* possible outcomes over the orders in which the set may be iterated.
\* removed: the cuboids put in lit_to_remove, added: those put in lit_to_add,
\* extended: those the queue is extended with
EfficientGrid_for_outcomes(lit_cuboids, new_cuboid) ==
    LET already_lit == {lit \in lit_cuboids : Cuboid_contains(lit, new_cuboid)}
        around == {lit \in lit_cuboids \ already_lit : Cuboid_contains(new_cuboid, lit)}
        overlapping == {lit \in lit_cuboids \ (already_lit \cup around) :
                           Cuboid_overlaps(new_cuboid, lit)}
    IN  \* a break at a cuboid that holds new_cuboid, after any of `around`
        {[removed |-> seen, added |-> {}, extended |-> {}] :
            seen \in IF already_lit = {} THEN {} ELSE SUBSET around}
        \cup
        \* a break at an overlapping cuboid, after any of `around`
        {[removed |-> o[2], added |-> {}, extended |-> Cuboid_extract(new_cuboid, o[1])] :
            o \in overlapping \X SUBSET around}
        \cup
        \* no break: the else branch of the for loop
        (IF already_lit \cup overlapping = {}
         THEN {[removed |-> around, added |-> {new_cuboid}, extended |-> {}]}
         ELSE {})

\* EfficientGrid.remove_lit, lines 168-182
\* (faulty variant: the parts left of an overlapping cuboid are not added)
EfficientGrid_remove_lit_mut(lit_cuboids, cuboid) ==
    {lit \in lit_cuboids : ~Cuboid_overlaps(cuboid, lit)}
EfficientGrid_remove_lit(lit_cuboids, cuboid) ==
    LET inside == {lit \in lit_cuboids : Cuboid_contains(cuboid, lit)}
        overlapping == {lit \in lit_cuboids \ inside : Cuboid_overlaps(cuboid, lit)}
        lit_to_remove == inside \cup overlapping
        lit_to_add == UNION {Cuboid_extract(lit, cuboid) : lit \in overlapping}
    IN  (lit_cuboids \ lit_to_remove) \cup lit_to_add

\* EfficientGrid.count_lit, line 197: the sum of the volumes
RECURSIVE EfficientGrid_count_lit(_)
EfficientGrid_count_lit(lit_cuboids) ==
    IF lit_cuboids = {} THEN 0
    ELSE LET cuboid == CHOOSE c \in lit_cuboids : TRUE
         IN  Cuboid_len(cuboid) + EfficientGrid_count_lit(lit_cuboids \ {cuboid})

\* Grid.switch_light, lines 224-232, and Grid.count_lit
Grid_switch_light(lit_cubes, turn_on, cuboid) ==
    LET voxels == {Voxel(x, y, z) : x \in cuboid.x.min..cuboid.x.max,
                                    y \in cuboid.y.min..cuboid.y.max,
                                    z \in cuboid.z.min..cuboid.z.max}
    IN  IF turn_on THEN lit_cubes \cup voxels ELSE lit_cubes \ voxels
Grid_count_lit(lit_cubes) == Cardinality(lit_cubes)

\* Grid.parse_instructions, lines 211-213: `if cuboid` is the test len(cuboid) != 0
Grid_parse_instruction(lit_cubes, sign, cuboid) ==
    IF Cuboid_len(cuboid) # 0 THEN Grid_switch_light(lit_cubes, sign, cuboid)
    ELSE lit_cubes

\* the cuboids the instructions are drawn from: corners that share one voxel,
\* a row, its middle voxel, a column that crosses the row, and the slab that
\* holds the row and the column
InstructionCuboids ==
    {Cuboid(Range_init(0, 1), Range_init(0, 1), Range_init(0, 1)),
     Cuboid(Range_init(1, 2), Range_init(1, 2), Range_init(1, 2)),
     Cuboid(Range_init(0, 2), Range_init(0, 0), Range_init(0, 0)),
     Cuboid(Range_init(1, 1), Range_init(0, 0), Range_init(0, 0)),
     Cuboid(Range_init(0, 0), Range_init(0, 2), Range_init(0, 0)),
     Cuboid(Range_init(0, 2), Range_init(0, 2), Range_init(0, 0))}

\* both parse_instructions take an `on` instruction from the list: Grid
\* switches the voxels on, EfficientGrid enters add_lit (lines 145-147)
Cubes_turn_on ==
    /\ prog = "cubes"
    /\ add_lit = None
    /\ parsed < MaxInstructions
    /\ \E cuboid \in InstructionCuboids :
          /\ simple_grid' = Grid_parse_instruction(simple_grid, TRUE, cuboid)
          /\ add_lit' = [queue |-> <<{cuboid}>>, lit_to_remove |-> {}, lit_to_add |-> {}]
    /\ parsed' = parsed + 1
    /\ UNCHANGED <<efficient_grid, extracted, cucumber_vars, prog, pc, result,
                   search_vars>>

\* one iteration of the `while queue` loop of add_lit, lines 148-166; the
\* call returns when the queue is left empty
EfficientGrid_add_lit_loop ==
    /\ prog = "cubes"
    /\ add_lit # None
    /\ \E new_cuboid \in queue_pop_choices(add_lit.queue) :
       \E o \in EfficientGrid_for_outcomes(efficient_grid, new_cuboid) :
          LET queue == queue_extend(queue_after_pop(add_lit.queue, new_cuboid),
                                    o.extended)
              lit_to_remove == add_lit.lit_to_remove \cup o.removed
              lit_to_add == add_lit.lit_to_add \cup o.added
          IN  /\ efficient_grid' = (efficient_grid \ lit_to_remove) \cup lit_to_add
              /\ add_lit' = IF queue = <<>> THEN None
                            ELSE [queue |-> queue, lit_to_remove |-> lit_to_remove,
                                  lit_to_add |-> lit_to_add]
    /\ UNCHANGED <<simple_grid, parsed, extracted, cucumber_vars, prog, pc, result,
                   search_vars>>

\* both parse_instructions take an `off` instruction from the list
Cubes_turn_off ==
    /\ prog = "cubes"
    /\ add_lit = None
    /\ parsed < MaxInstructions
    /\ \E cuboid \in InstructionCuboids :
          /\ simple_grid' = Grid_parse_instruction(simple_grid, FALSE, cuboid)
          /\ efficient_grid' = EfficientGrid_remove_lit(efficient_grid, cuboid)
    /\ parsed' = parsed + 1
    /\ UNCHANGED <<add_lit, extracted, cucumber_vars, prog, pc, result, search_vars>>

\* a call self.extract(other) on two cuboids that intersect
Cuboid_extract_call ==
    /\ prog = "extract"
    /\ ~extracted.done
    /\ extracted' = [extracted EXCEPT
                        !.done = TRUE,
                        !.value = Cuboid_extract(extracted.self, extracted.other)]
    /\ UNCHANGED <<efficient_grid, simple_grid, add_lit, parsed, cucumber_vars,
                   prog, pc, result, search_vars>>

\* a call self.split(other) on two ranges: it returns the list or raises
Range_split_call ==
    /\ prog = "split"
    /\ ~extracted.done
    /\ IF Range_split_raises(extracted.self, extracted.other)
       THEN /\ extracted' = [extracted EXCEPT !.done = TRUE]
            /\ pc' = "raised"
       ELSE /\ extracted' = [extracted EXCEPT
                                !.done = TRUE,
                                !.value = Range_split(extracted.self, extracted.other)]
            /\ pc' = "returned"
    /\ UNCHANGED <<efficient_grid, simple_grid, add_lit, parsed, cucumber_vars,
                   prog, result, search_vars>>

\* ======================= 2021/25 cucumber.py =======================
\* A line of the input is a sequence of characters; Grid.cucumbers is a
\* dict from the points (x, y) that hold a cucumber to its Direction.
Direction_SOUTH == "v"
Direction_EAST == ">"
Direction_NONE == "."

OFFSET(direction) == IF direction = Direction_SOUTH THEN Point(0, 1) ELSE Point(1, 0)

\* parse_file, lines 49-62: x is left at the last index of the last line
CucumberGrid_parse_file(lines) ==
    LET y == Len(lines)
        x == Len(lines[y]) - 1
        keys == {Point(i - 1, j - 1) : i \in 1..Len(lines[1]), j \in 1..y}
        cucumbers == [q \in {k \in keys : lines[k[2] + 1][k[1] + 1] # Direction_NONE}
                        |-> lines[q[2] + 1][q[1] + 1]]
    IN  [width |-> x + 1, height |-> y, cucumbers |-> cucumbers]

\* __repr__, lines 38-46: the rows of the grid as text
CucumberGrid_repr(self) ==
    [j \in 1..self.height |->
        [i \in 1..self.width |->
            IF Point(i - 1, j - 1) \in DOMAIN self.cucumbers
            THEN self.cucumbers[Point(i - 1, j - 1)] ELSE Direction_NONE]]

\* (faulty variant of wrap: the point is not brought back into the grid)
CucumberGrid_wrap_mut(self, key) == key
\* wrap, lines 64-68
CucumberGrid_wrap(self, key) == Point(key[1] % self.width, key[2] % self.height)

\* (faulty variant of move_herd: the test `new_point not in self.cucumbers` is
\* left out, so a cucumber also moves onto a cell that is taken)
CucumberGrid_move_herd_mut(self, direction) ==
    LET offset == OFFSET(direction)
        new_point(point) ==
            CucumberGrid_wrap(self, Point(point[1] + offset[1], point[2] + offset[2]))
        moving == {point \in DOMAIN self.cucumbers : self.cucumbers[point] = direction}
        staying == DOMAIN self.cucumbers \ moving
        moved_points == [q \in {new_point(point) : point \in moving} \cup staying |->
                            IF q \in staying THEN self.cucumbers[q] ELSE direction]
    IN  [grid |-> [self EXCEPT !.cucumbers = moved_points],
         moved_count |-> Cardinality(moving)]
\* move_herd, lines 70-85: every test `new_point not in self.cucumbers` reads
\* the dict as it was before the herd moved; the new dict replaces it at the
\* end.  No two keys written are the same, so the order of the loop does not
\* show in the dict built.
CucumberGrid_move_herd(self, direction) ==
    LET offset == OFFSET(direction)
        new_point(point) ==
            CucumberGrid_wrap(self, Point(point[1] + offset[1], point[2] + offset[2]))
        moving == {point \in DOMAIN self.cucumbers :
                      /\ self.cucumbers[point] = direction
                      /\ new_point(point) \notin DOMAIN self.cucumbers}
        staying == DOMAIN self.cucumbers \ moving
        moved_points == [q \in {new_point(point) : point \in moving} \cup staying |->
                            IF q \in staying THEN self.cucumbers[q] ELSE direction]
    IN  [grid |-> [self EXCEPT !.cucumbers = moved_points],
         moved_count |-> Cardinality(moving)]

\* move, lines 87-92: the east herd, then the south herd on the grid it left
CucumberGrid_move(self) ==
    LET east == CucumberGrid_move_herd(self, Direction_EAST)
        south == CucumberGrid_move_herd(east.grid, Direction_SOUTH)
    IN  [grid |-> south.grid, moved_count |-> east.moved_count + south.moved_count]

\* Grid.parse_file(...) and the entry of move_until_total_stop, line 98
Cucumber_parse_file ==
    /\ prog = "cucumber"
    /\ pc = "idle"
    /\ cucumber_grid' = CucumberGrid_parse_file(cucumber_input)
    /\ step' = 1
    /\ pc' = "loop"
    /\ UNCHANGED <<cucumber_input, cubes_vars, prog, result, search_vars>>

\* `while grid.move(): step += 1`, lines 99-100, some cucumber moved
move_until_total_stop_loop ==
    /\ prog = "cucumber"
    /\ pc = "loop"
    /\ step < MaxSteps
    /\ LET moved == CucumberGrid_move(cucumber_grid)
       IN  /\ moved.moved_count # 0
           /\ cucumber_grid' = moved.grid
           /\ step' = step + 1
    /\ UNCHANGED <<cucumber_input, cubes_vars, prog, pc, result, search_vars>>

\* `while grid.move()` finds that nothing moved; `return step`, line 101
move_until_total_stop_return ==
    /\ prog = "cucumber"
    /\ pc = "loop"
    /\ LET moved == CucumberGrid_move(cucumber_grid)
       IN  /\ moved.moved_count = 0
           /\ cucumber_grid' = moved.grid
    /\ result' = step
    /\ pc' = "returned"
    /\ UNCHANGED <<cucumber_input, step, cubes_vars, prog, search_vars>>

\* ======================= initial states =======================
\* the shapes width x height of the grids explored
Shapes(cells, side) == {s \in (side..cells) \X (side..cells) : s[1] * s[2] <= cells}
Rows(shape, values) == [0..(shape[2] - 1) -> [0..(shape[1] - 1) -> values]]

Weights == 0..MaxWeight

\* the input text of hill_climbing: one S, one E, letters elsewhere
Chars == {"S", "E"} \cup {TRANSLATE[i] : i \in 1..Len(TRANSLATE)}
Count(data, char) == Cardinality({p \in all_points(data) : grid_getitem(data, p) = char})

\* the objects of a program that does not run
CubesIdle ==
    /\ efficient_grid = {} /\ simple_grid = {} /\ add_lit = None
    /\ parsed = 0 /\ extracted = None
CucumberIdle == cucumber_input = <<>> /\ cucumber_grid = None /\ step = 0

InitLocals ==
    /\ fn = "" /\ start_arg = None /\ end_point = None
    /\ shortest_path = <<>> /\ priority_queue = EmptyBag
    /\ solved_states = {} /\ current = None /\ pops = 0
    /\ pc = "idle" /\ ret = <<>> /\ result = None /\ calls = 0

InitChitons(weights) ==
    /\ prog = "chitons"
    /\ \E shape \in Shapes(MaxCells, 1) : \E rows \in Rows(shape, weights) :
          graph = Chitons_Graph(rows)
    /\ lowest_elevations = {}
    /\ graph_before = graph
    /\ InitLocals
    /\ CubesIdle /\ CucumberIdle

InitHillOn(cells, chars) ==
    /\ prog = "hill"
    /\ \E shape \in Shapes(cells, 2) : \E data \in Rows(shape, chars) :
          /\ Count(data, "S") = 1
          /\ Count(data, "E") = 1
          /\ graph = Hill_parse(data).grid
          /\ lowest_elevations = Hill_parse(data).lowest_elevations
    /\ graph_before = graph
    /\ InitLocals
    /\ CubesIdle /\ CucumberIdle
InitHillOf(chars) == InitHillOn(MaxHillCells, chars)

\* amphipod start definitions "AABBCCDD": the solved burrow with one or two
\* amphipods displaced
StartDefinitions ==
    {<<"a", "b", "c", "d", "e", "f", "g", "h">>,   \* already solved
     <<"1", "b", "c", "d", "e", "f", "g", "h">>,
     <<"a", "2", "c", "d", "e", "f", "g", "h">>,
     <<"a", "b", "c", "d", "e", "7", "g", "h">>,
     <<"a", "b", "4", "d", "e", "f", "g", "h">>,
     <<"5", "b", "a", "d", "4", "e", "g", "h">>,   \* no solution
     <<"3", "a", "c", "d", "2", "f", "e", "h">>,   \* no solution
     <<"4", "b", "a", "d", "1", "f", "g", "h">>,
     <<"a", "b", "5", "d", "c", "f", "2", "h">>,
     <<"5", "b", "a", "d", "6", "f", "g", "h">>,
     <<"4", "b", "d", "e", "6", "f", "g", "h">>,
     <<"1", "b", "a", "d", "4", "f", "g", "h">>,
     <<"5", "b", "c", "d", "f", "g", "7", "h">>,
     <<"a", "b", "d", "g", "5", "f", "3", "h">>}

InitAmphipod ==
    /\ prog = "amphipod"
    /\ graph = GRAPH
    /\ lowest_elevations = {}
    /\ graph_before = graph
    /\ \E definition \in StartDefinitions :
          start_arg = Graph_make_state(GRAPH, definition)
    /\ fn = "" /\ end_point = None
    /\ shortest_path = <<>> /\ priority_queue = EmptyBag
    /\ solved_states = {} /\ current = None /\ pops = 0
    /\ pc = "idle" /\ ret = <<>> /\ result = None /\ calls = 0
    /\ CubesIdle /\ CucumberIdle

InitHill == InitHillOf(Chars)

Init == InitChitons(Weights) \/ InitHill \/ InitAmphipod

Next ==
    \/ Chitons_get_total_risk
    \/ Chitons_dijkstra
    \/ Chitons_loop
    \/ Chitons_return
    \/ Hill_find_shortest_path
    \/ Hill_find_shortest_path_from_any_start
    \/ Hill_loop
    \/ Hill_return
    \/ Amphipod_get_least_expensive_path
    \/ Amphipod_loop_end
    \/ Amphipod_loop
    \/ Amphipod_return

Spec == Init /\ [][Next]_vars

\* a grid whose weights may be negative, as Graph(rows) accepts them
NegWeights == (0 - 1)..MaxWeight
InitNeg == InitChitons(NegWeights) \/ InitHill \/ InitAmphipod
SpecNeg == InitNeg /\ [][Next]_vars

\* the game of amphipod.py walked edge by edge from the example burrow of the
\* puzzle and from the start definitions of the searches
TEST_STATE == <<"b", "h", "a", "e", "c", "f", "d", "g">>
InitGame ==
    /\ prog = "game"
    /\ graph = GRAPH
    /\ lowest_elevations = {}
    /\ graph_before = graph
    /\ \E definition \in StartDefinitions \cup {TEST_STATE} :
          /\ start_arg = Graph_make_state(GRAPH, definition)
          /\ current = Some(Graph_make_state(GRAPH, definition))
    /\ fn = "" /\ end_point = None
    /\ shortest_path = <<>> /\ priority_queue = EmptyBag
    /\ solved_states = {} /\ pops = 0
    /\ pc = "idle" /\ ret = <<>> /\ result = None /\ calls = 0
    /\ CubesIdle /\ CucumberIdle
NextGame == Graph_get_neighbors_next
SpecGame == InitGame /\ [][NextGame]_vars

\* hill_climbing alone on grids of up to MaxWideCells cells over the two
\* lowest letters, wide enough for a detour around the end point
WideChars == {"S", "E", "a", "b"}
InitWide == InitHillOn(MaxWideCells, WideChars)
NextHill ==
    \/ Hill_find_shortest_path
    \/ Hill_find_shortest_path_from_any_start
    \/ Hill_loop
    \/ Hill_return
SpecWide == InitWide /\ [][NextHill]_vars

\* a call runs synchronously to its end: while the loop of a started search
\* can make an iteration or return, it does
Running == Chitons_loop \/ Chitons_return \/ Hill_loop \/ Hill_return
\* the hill grids followed under fairness hold the lowest and the highest letter
LiveChars == {"S", "E", "a", "z"}
InitLive == InitChitons(Weights) \/ InitHillOf(LiveChars) \/ InitAmphipod
SpecLive == InitLive /\ [][Next]_vars /\ WF_vars(Running)

\* the searches do not run
SearchIdle ==
    /\ graph = None /\ lowest_elevations = {} /\ graph_before = None
    /\ InitLocals

\* cubes: both grids are newly built, no instruction is parsed yet
InitCubes ==
    /\ prog = "cubes"
    /\ CubesIdle /\ CucumberIdle /\ SearchIdle

\* the ranges and cuboids with coordinates 0..n
Ranges(n) == {Range_init(a, b) : a \in 0..n, b \in 0..n} \cap
             {r \in [min : 0..n, max : 0..n] : r.min <= r.max}
Cuboids(n) == {Cuboid(x, y, z) : x \in Ranges(n), y \in Ranges(n), z \in Ranges(n)}

\* a pending call of extract on two cuboids that intersect
InitExtract ==
    /\ prog = "extract"
    /\ \E a \in Cuboids(MaxCoord) : \E b \in Cuboids(MaxCoord) :
          /\ Cuboid_extract_allowed(a, b)
          /\ extracted = [self |-> a, other |-> b, done |-> FALSE, value |-> {}]
    /\ efficient_grid = {} /\ simple_grid = {} /\ add_lit = None /\ parsed = 0
    /\ CucumberIdle /\ SearchIdle

NextCubes ==
    \/ Cubes_turn_on
    \/ EfficientGrid_add_lit_loop
    \/ Cubes_turn_off
    \/ Cuboid_extract_call
SpecCubes == (InitCubes \/ InitExtract) /\ [][NextCubes]_vars

\* cucumber: the input files of width x height characters
CucumberInputs ==
    UNION {UNION {[1..h -> [1..w -> {Direction_NONE, Direction_EAST, Direction_SOUTH}]] :
              w \in {i \in 1..MaxWidth : i * h <= MaxSeaCells}} : h \in 1..MaxHeight}

InitCucumber ==
    /\ prog = "cucumber"
    /\ cucumber_input \in CucumberInputs
    /\ cucumber_grid = None /\ step = 0
    /\ CubesIdle /\ SearchIdle

NextCucumber ==
    \/ Cucumber_parse_file
    \/ move_until_total_stop_loop
    \/ move_until_total_stop_return
SpecCucumber == InitCucumber /\ [][NextCucumber]_vars


\* a pending call of split on two ranges that have a common point
InitSplit ==
    /\ prog = "split"
    /\ \E r \in Ranges(MaxSplit) : \E item \in Ranges(MaxSplit) :
          /\ Range_overlaps(r, item)
          /\ extracted = [self |-> r, other |-> item, done |-> FALSE, value |-> <<>>]
    /\ efficient_grid = {} /\ simple_grid = {} /\ add_lit = None /\ parsed = 0
    /\ CucumberIdle /\ SearchIdle
NextSplit == Range_split_call
SpecSplit == InitSplit /\ [][NextSplit]_vars

\* ======================= reference definitions =======================
\* They are written from the problem statements, not from the searches.
SetMin(S) == CHOOSE m \in S : \A o \in S : m <= o
Abs(i) == IF i < 0 THEN 0 - i ELSE i
Adjacent(p, q) == Abs(p[1] - q[1]) + Abs(p[2] - q[2]) = 1

\* least cost of a 4-neighbour path from src, entering a cell costs its weight
\* (Bellman-Ford, k rounds left); d maps the points reached so far to the
\* least cost found so far
RECURSIVE PathCostRounds(_, _, _)
PathCostRounds(rows, d, k) ==
    IF k = 0 THEN d
    ELSE PathCostRounds(rows,
            [p \in {p \in all_points(rows) :
                       p \in DOMAIN d \/ \E q \in DOMAIN d : Adjacent(p, q)} |->
                SetMin((IF p \in DOMAIN d THEN {d[p]} ELSE {}) \cup
                       {d[q] + grid_getitem(rows, p) :
                           q \in {q \in DOMAIN d : Adjacent(p, q)}})],
            k - 1)
MinPathCost(rows, src) ==
    PathCostRounds(rows, (src :> 0), Cardinality(all_points(rows)))

\* a step from p to q is allowed going uphill by at most 1; the backward rule
\* follows the allowed steps against their direction
StepAllowed(rows, p, q, backward) ==
    /\ Adjacent(p, q)
    /\ IF backward THEN grid_getitem(rows, p) - grid_getitem(rows, q) <= 1
       ELSE grid_getitem(rows, q) - grid_getitem(rows, p) <= 1
\* breadth-first levels: d maps the points reached so far to their step count
RECURSIVE StepLevels(_, _, _, _, _)
StepLevels(rows, backward, frontier, d, k) ==
    LET next == {q \in all_points(rows) \ DOMAIN d :
                    \E p \in frontier : StepAllowed(rows, p, q, backward)}
    IN  IF next = {} THEN d
        ELSE StepLevels(rows, backward, next, d @@ [q \in next |-> k + 1], k + 1)
StepsFrom(rows, src, backward) == StepLevels(rows, backward, {src}, (src :> 0), 0)

\* amphipod: every amphipod stands in the room of its type
AllHome(state) ==
    \A t \in 1..Len(Amphipod) :
        {state.amps[i] : i \in (2 * t - 1)..(2 * t)} = Range(ROOMS[t])
\* the game states reachable from a set of states
RECURSIVE GameReach(_, _)
GameReach(frontier, seen) ==
    LET next == UNION {{nb[1] : nb \in Graph_get_neighbors(GRAPH, st)} : st \in frontier} \ seen
    IN  IF next = {} THEN seen ELSE GameReach(next, seen \cup next)
\* least total edge cost from src to every reachable game state
\* (Bellman-Ford over the edges <<from, to, cost>>, k rounds left)
RECURSIVE GameCostRounds(_, _, _)
GameCostRounds(edges, d, k) ==
    IF k = 0 THEN d
    ELSE GameCostRounds(edges,
            [st \in DOMAIN d \cup {e[2] : e \in {e \in edges : e[1] \in DOMAIN d}} |->
                SetMin((IF st \in DOMAIN d THEN {d[st]} ELSE {}) \cup
                       {d[e[1]] + e[3] :
                           e \in {e \in edges : e[2] = st /\ e[1] \in DOMAIN d}})],
            k - 1)
GameMinCosts(src) ==
    LET states == GameReach({src}, {src})
        edges == UNION {{<<st, nb[1], nb[2]>> : nb \in Graph_get_neighbors(GRAPH, st)} :
                           st \in states}
    IN  GameCostRounds(edges, (src :> 0), Cardinality(states))
\* the costs of the reachable solved burrows
GameEndCosts(src) ==
    LET d == GameMinCosts(src) IN {d[st] : st \in {st \in DOMAIN d : AllHome(st)}}

\* the burrow of the puzzle: a hallway of eleven cells, columns 0..10, with
\* the rooms below columns 2, 4, 6 and 8; the cells in front of the rooms
\* have no name because nobody may stop there
BurrowColumn(loc) ==
    IF loc \in {"a", "b"} THEN 2 ELSE IF loc \in {"c", "d"} THEN 4
    ELSE IF loc \in {"e", "f"} THEN 6 ELSE IF loc \in {"g", "h"} THEN 8
    ELSE IF loc = "1" THEN 0 ELSE IF loc = "2" THEN 1 ELSE IF loc = "3" THEN 3
    ELSE IF loc = "4" THEN 5 ELSE IF loc = "5" THEN 7 ELSE IF loc = "6" THEN 9
    ELSE 10
BurrowDepth(loc) ==
    IF loc \in {"a", "c", "e", "g"} THEN 1
    ELSE IF loc \in {"b", "d", "f", "h"} THEN 2 ELSE 0
InHallway(loc) == BurrowDepth(loc) = 0
\* steps of the only route between two locations: up to the hallway, along
\* it, down into the room
BurrowSteps(p, q) ==
    IF BurrowColumn(p) = BurrowColumn(q) THEN Abs(BurrowDepth(p) - BurrowDepth(q))
    ELSE BurrowDepth(p) + Abs(BurrowColumn(p) - BurrowColumn(q)) + BurrowDepth(q)
\* the named locations entered on that route, q included, p not
BurrowRoute(p, q) ==
    {l \in Range(LOCATION_ORDER) \ {p} :
        IF BurrowColumn(p) = BurrowColumn(q)
        THEN /\ BurrowColumn(l) = BurrowColumn(p)
             /\ \/ BurrowDepth(p) < BurrowDepth(l) /\ BurrowDepth(l) <= BurrowDepth(q)
                \/ BurrowDepth(q) <= BurrowDepth(l) /\ BurrowDepth(l) < BurrowDepth(p)
        ELSE \/ BurrowColumn(l) = BurrowColumn(p) /\ BurrowDepth(l) < BurrowDepth(p)
             \/ BurrowColumn(l) = BurrowColumn(q) /\ BurrowDepth(l) <= BurrowDepth(q)
             \/ /\ InHallway(l)
                /\ \/ BurrowColumn(p) < BurrowColumn(l) /\ BurrowColumn(l) < BurrowColumn(q)
                   \/ BurrowColumn(q) < BurrowColumn(l) /\ BurrowColumn(l) < BurrowColumn(p)}
\* the move behind an edge from state to new_state: the location left and
\* the location taken
MoveOf(state, new_state) ==
    [old_loc |-> CHOOSE l \in Range(state.amps) : l \notin Range(new_state.amps),
     new_loc |-> CHOOSE l \in Range(new_state.amps) : l \notin Range(state.amps)]

\* the sea floor as rows of text.  In one step every east-facing cucumber
\* with a free cell to its east moves, all at once; then every south-facing
\* cucumber with a free cell to its south moves, all at once; the cell past
\* an edge is the first cell of the same row or column.
SeaEast(sea) ==
    LET w == Len(sea[1])
    IN  [j \in 1..Len(sea) |-> [i \in 1..w |->
            LET west == sea[j][((i + w - 2) % w) + 1]
                east == sea[j][(i % w) + 1]
            IN  IF sea[j][i] = "." /\ west = ">" THEN ">"
                ELSE IF sea[j][i] = ">" /\ east = "." THEN "."
                ELSE sea[j][i]]]
SeaSouth(sea) ==
    LET h == Len(sea)
    IN  [j \in 1..h |-> [i \in 1..Len(sea[1]) |->
            LET north == sea[((j + h - 2) % h) + 1][i]
                south == sea[(j % h) + 1][i]
            IN  IF sea[j][i] = "." /\ north = "v" THEN "v"
                ELSE IF sea[j][i] = "v" /\ south = "." THEN "."
                ELSE sea[j][i]]]
RECURSIVE SeaAfter(_, _)
SeaAfter(sea, n) == IF n = 0 THEN sea ELSE SeaSouth(SeaEast(SeaAfter(sea, n - 1)))
\* some cucumber moves in step n (a cucumber that moves leaves its cell, and
\* nothing of its own herd can enter that cell in the same half step)
SeaMovesIn(sea, n) ==
    LET before == SeaAfter(sea, n - 1)
    IN  SeaEast(before) # before \/ SeaSouth(SeaEast(before)) # SeaEast(before)

\* the number of cucumbers of a herd in a dict of cucumbers, and in the text
HerdSize(cucumbers, direction) ==
    Cardinality({p \in DOMAIN cucumbers : cucumbers[p] = direction})
HerdSizeIn(sea, direction) ==
    Cardinality({c \in (1..Len(sea[1])) \X (1..Len(sea)) : sea[c[2]][c[1]] = direction})
\* the cell a cucumber at p heads for: one to the east or one to the south,
\* past an edge the first cell of the row or column
TargetCell(grid, p, direction) ==
    IF direction = ">" THEN <<(p[1] + 1) % grid.width, p[2]>>
    ELSE <<p[1], (p[2] + 1) % grid.height>>
\* `after` is `before` with one herd moved: a cucumber of the herd whose
\* target cell is empty in `before` is at its target and has left its cell,
\* every other cucumber is where it was, and no cucumber is added
HerdStep(before, after, direction) ==
    /\ \A p \in DOMAIN before.cucumbers :
          LET t == TargetCell(before, p, direction)
          IN  IF before.cucumbers[p] = direction /\ t \notin DOMAIN before.cucumbers
              THEN /\ t \in DOMAIN after.cucumbers
                   /\ after.cucumbers[t] = direction
                   /\ p \notin DOMAIN after.cucumbers
              ELSE /\ p \in DOMAIN after.cucumbers
                   /\ after.cucumbers[p] = before.cucumbers[p]
    /\ Cardinality(DOMAIN after.cucumbers) = Cardinality(DOMAIN before.cucumbers)
    /\ after.width = before.width /\ after.height = before.height
\* the cucumbers of a herd that move in a herd step from `before`
MoversOf(before, direction) ==
    {p \in DOMAIN before.cucumbers :
        /\ before.cucumbers[p] = direction
        /\ TargetCell(before, p, direction) \notin DOMAIN before.cucumbers}

\* the voxels of a cuboid: the points whose coordinates lie in its ranges
VoxelsOf(cuboid) ==
    {v \in (cuboid.x.min..cuboid.x.max) \X (cuboid.y.min..cuboid.y.max)
            \X (cuboid.z.min..cuboid.z.max) : TRUE}
PairwiseDisjoint(cuboids) ==
    \A c \in cuboids : \A d \in cuboids \ {c} : VoxelsOf(c) \cap VoxelsOf(d) = {}

\* ======================= claims =======================
ChitonsReturned == prog = "chitons" /\ pc = "returned"
HillReturned(f) == prog = "hill" /\ pc = "returned" /\ fn = f

\* C1: the map returned by chitons dijkstra gives the start distance 0 and
\* every grid point the least cost of a 4-neighbour path from the start (the
\* weights of the cells entered); get_total_risk returns that of the
\* bottom-right point.
C1_DijkstraMinimal ==
    ChitonsReturned =>
        LET best == MinPathCost(graph.risk_level, start_arg)
        IN  /\ DOMAIN ret = all_points(graph.risk_level)
            /\ ret[start_arg] = Some(0)
            /\ \A p \in DOMAIN ret : p \in DOMAIN best /\ ret[p] = Some(best[p])
            /\ fn = "get_total_risk" =>
                  result = Some(best[Chitons_get_end_point(graph)])
\* a 2 x 2 grid whose two routes to the end differ, solved by get_total_risk
C1_Witness ==
    /\ ChitonsReturned /\ fn = "get_total_risk"
    /\ all_points(graph.risk_level) = {<<0, 0>>, <<1, 0>>, <<0, 1>>, <<1, 1>>}
    /\ graph.risk_level[0][1] = 2 /\ graph.risk_level[1][0] = 1
    /\ result = Some(1 + graph.risk_level[1][1])

\* C2: find_shortest_path returns the least number of steps from grid.start to
\* grid.end over 4-neighbour steps that climb at most 1, the value a plain
\* breadth-first search gives, whenever grid.end can be reached.
C2_FindShortestPath ==
    HillReturned("find_shortest_path") =>
        LET steps == StepsFrom(graph.elevation, graph.start, FALSE)
        IN  graph.end \in DOMAIN steps => result = Some(steps[graph.end])
\* the end is reached in three steps
C2_Witness ==
    /\ HillReturned("find_shortest_path")
    /\ result = Some(3)

\* C3: get_least_expensive_path returns the least total cost of a sequence of
\* get_neighbors edges from start_state to a state with every amphipod home.
C3_LeastExpensivePath ==
    (prog = "amphipod" /\ pc \in {"returned", "raised"}) =>
        LET costs == GameEndCosts(start_arg)
        IN  /\ pc = "returned" <=> costs # {}
            /\ pc = "returned" => result = Some(SetMin(costs))
\* the burrow "4bad1fgh" is solved with 744 energy, after a state's cost improved
C3_Witness ==
    /\ prog = "amphipod" /\ pc = "returned"
    /\ start_arg.amps = <<"4", "b", "a", "d", "1", "f", "g", "h">>
    /\ result = Some(744)

\* the forward step counts to grid.end of the lowest points that can reach it
LowestForwardSteps ==
    {StepsFrom(graph.elevation, p, FALSE)[graph.end] :
        p \in {p \in lowest_elevations :
                  graph.end \in DOMAIN StepsFrom(graph.elevation, p, FALSE)}}
\* C4: the one backward search of find_shortest_path_from_any_start returns
\* the minimum, over the lowest points that can reach grid.end, of the
\* forward shortest step count from that point to grid.end.
C4_AnyStartIsForwardMin ==
    (prog = "hill" /\ fn = "find_shortest_path_from_any_start"
        /\ pc \in {"returned", "raised"}) =>
        /\ pc = "returned" <=> LowestForwardSteps # {}
        /\ pc = "returned" => result = Some(SetMin(LowestForwardSteps))
\* two lowest points reach the end at different step counts
C4_Witness ==
    /\ HillReturned("find_shortest_path_from_any_start")
    /\ Cardinality(LowestForwardSteps) >= 2
    /\ result = Some(2)

\* C5: once a_star, called with a target, has recorded the target's distance,
\* no further frontier entry is popped.
C5_StopsAtTarget ==
    [][(prog = "hill" /\ pc = "loop" /\ end_point # None
            /\ shortest_path[end_point] # None)
        => pops' = pops]_vars

\* C6: when amphipod dijkstra pops a state with every amphipod home it stops
\* at once: the state is not settled or expanded, the rest of the frontier is
\* left as it is, and the returned map holds exactly that state with the
\* distance it was popped at.
C6_StopsAtEndState ==
    [][(prog = "amphipod" /\ pops' = pops + 1 /\ AllHome(current'[2])) =>
        /\ pc' = "returned"
        /\ ret' = (current'[2] :> current'[1])
        /\ solved_states' = solved_states
        /\ shortest_path' = shortest_path
        /\ priority_queue' = queue_remove(priority_queue, current')]_vars
\* an end state was popped while other entries were still in the frontier
C6_Witness ==
    /\ prog = "amphipod" /\ pc = "returned" /\ pops > 1
    /\ AllHome(current[2])
    /\ priority_queue # EmptyBag

\* the points with no path from the start of the search that returned
GridReturned == prog \in {"chitons", "hill"} /\ pc = "returned"
NoPathPoints ==
    IF prog = "chitons"
    THEN all_points(graph.risk_level) \ DOMAIN MinPathCost(graph.risk_level, start_arg)
    ELSE all_points(graph.elevation) \
             DOMAIN StepsFrom(graph.elevation, start_arg, end_point = None)
\* C7 as stated: a point with no path from the start is absent from the map
\* returned by a_star and by chitons dijkstra.
C7_UnreachedAbsent ==
    GridReturned => \A p \in NoPathPoints : p \notin DOMAIN ret
\* C7 amended: a point with no path from the start is a key of the returned
\* map whose value is None, never a number.
C7_UnreachedIsNone ==
    GridReturned => \A p \in NoPathPoints : p \in DOMAIN ret /\ ret[p] = None
\* a_star returned on a grid with a point that has no path from the start
C7_Witness ==
    /\ HillReturned("find_shortest_path_from_any_start")
    /\ NoPathPoints # {}
    /\ Cardinality({p \in DOMAIN ret : ret[p] # None}) >= 3

\* C8: when grid.end cannot be reached from grid.start, find_shortest_path
\* does not return normally.
C8_UnreachedIsFatal ==
    (prog = "hill" /\ fn = "find_shortest_path" /\ pc # "loop"
        /\ graph.end \notin DOMAIN StepsFrom(graph.elevation, graph.start, FALSE))
        => pc # "returned"

\* C9: an iteration of chitons dijkstra never writes a distance computed from
\* a negative edge cost (the cost of an edge is the weight of its target).
C9_NegativeCostRejected ==
    [][(prog = "chitons" /\ pops' = pops + 1) =>
        \A n \in DOMAIN shortest_path :
            shortest_path'[n] # shortest_path[n] => grid_getitem(graph.risk_level, n) >= 0]_vars

C11_CallsIndependent ==
    /\ (prog \in {"chitons", "hill"} /\ pc = "loop" /\ pops = 0) =>
           graph.solved_points = {}
    /\ ChitonsReturned =>
           ret = Chitons_dijkstra_value(Chitons_Graph(graph.risk_level), start_arg)
    /\ (prog = "hill" /\ pc \in {"returned", "raised"}) =>
           ret = Hill_a_star_value(Hill_Grid(graph.elevation, graph.start, graph.end),
                                   start_arg, end_point)
\* the second search on a grid returned, from another start than the first,
\* whose settled set of several points was still on the graph when it began
C11_Witness ==
    /\ prog = "hill" /\ pc = "returned" /\ calls = 2
    /\ fn = "find_shortest_path"
    /\ Cardinality(graph_before.solved_points) >= 3
    /\ graph_before.solved_points # graph.solved_points
    /\ result # None

\* C12: on a grid with cells of weight 0, chitons dijkstra treats a recorded
\* distance of 0 as recorded: an iteration puts no new entry in the frontier
\* for a point whose recorded distance is 0 (no candidate is strictly less
\* than 0 on weights >= 0). The returned distances are those of C1.
C12_ZeroIsRecorded ==
    [][(prog = "chitons" /\ pops' = pops + 1) =>
        \A e \in BagToSet(priority_queue') :
            shortest_path[e[2]] = Some(0) =>
                CopiesIn(e, priority_queue') <= CopiesIn(e, priority_queue)]_vars

CubesParsed == prog = "cubes" /\ add_lit = None

\* C14: after every list of on/off instructions EfficientGrid.count_lit gives
\* the number that Grid.count_lit gives, the number of voxels lit when the
\* instructions are applied voxel by voxel in their order.
C14_CountsAgree ==
    CubesParsed =>
        EfficientGrid_count_lit(efficient_grid) = Grid_count_lit(simple_grid)
\* two overlapping cuboids were switched on and a voxel of one switched off
C14_Witness ==
    /\ CubesParsed /\ parsed = 3
    /\ Grid_count_lit(simple_grid) = 14
    /\ EfficientGrid_count_lit(efficient_grid) = 14
    /\ Cardinality(efficient_grid) >= 4

\* C15: after any sequence of add_lit and remove_lit calls no voxel belongs
\* to two of the stored lit cuboids.
C15_LitCuboidsDisjoint ==
    CubesParsed => PairwiseDisjoint(efficient_grid)
\* an added cuboid was split around a stored one: several cuboids are stored
C15_Witness ==
    /\ CubesParsed /\ parsed >= 2
    /\ Cardinality(efficient_grid) >= 8
    /\ Grid_count_lit(simple_grid) = 15

\* C16: for two cuboids a and b that intersect, a.extract(b) gives pairwise
\* disjoint cuboids, none with a voxel of the intersection, that together hold
\* exactly the voxels of a outside b (their volumes add up to len(a) minus the
\* volume of the intersection); the value is empty when a lies inside b.
C16_ExtractIsDifference ==
    (prog = "extract" /\ extracted.done) =>
        LET a == extracted.self
            b == extracted.other
            new_cuboids == extracted.value
            common == VoxelsOf(a) \cap VoxelsOf(b)
        IN  /\ PairwiseDisjoint(new_cuboids)
            /\ \A c \in new_cuboids : VoxelsOf(c) \cap common = {}
            /\ UNION {VoxelsOf(c) : c \in new_cuboids} = VoxelsOf(a) \ VoxelsOf(b)
            /\ EfficientGrid_count_lit(new_cuboids) = Cuboid_len(a) - Cardinality(common)
            /\ VoxelsOf(a) \subseteq VoxelsOf(b) => new_cuboids = {}
\* a cuboid was split around a voxel inside it into 26 cuboids
C16_Witness ==
    /\ prog = "extract" /\ extracted.done
    /\ Cardinality(extracted.value) = 26
    /\ Cuboid_len(extracted.other) = 1

\* C17: move_until_total_stop returns the 1-based number of the first step
\* in which no cucumber moves, each step moving the east herd and then the
\* south herd, each all at once and with wrap-around; while it runs the grid
\* is the sea floor after step - 1 steps and a cucumber moved in step - 1
\* (so, the loop having passed every smaller value of step, in every earlier
\* step), and the grid it leaves is a fixed point of Grid.move.
C17_StopsAtFirstStill ==
    (prog = "cucumber" /\ pc \in {"loop", "returned"}) =>
        /\ step > 1 => SeaMovesIn(cucumber_input, step - 1)
        /\ CucumberGrid_repr(cucumber_grid) = SeaAfter(cucumber_input, step - 1)
        /\ pc = "returned" =>
              /\ result = step
              /\ ~SeaMovesIn(cucumber_input, result)
              /\ CucumberGrid_move(cucumber_grid).moved_count = 0
              /\ CucumberGrid_move(cucumber_grid).grid = cucumber_grid
\* a run that stops in its twelfth step, with both herds and a cucumber that
\* went round an edge
C17_Witness ==
    /\ prog = "cucumber" /\ pc = "returned" /\ result = 12
    /\ \E p \in DOMAIN cucumber_grid.cucumbers : cucumber_grid.cucumbers[p] = ">"
    /\ \E p \in DOMAIN cucumber_grid.cucumbers : cucumber_grid.cucumbers[p] = "v"
    /\ \E j \in 1..Len(cucumber_input) :
          /\ cucumber_input[j][Len(cucumber_input[1])] = ">"
          /\ cucumber_input[j][1] = "."

\* ---- the settled set in the searches ----
\* the settled set of the running search: graph.solved_points in chitons and
\* hill_climbing, the local solved_states in amphipod
SettledStates == IF prog = "amphipod" THEN solved_states ELSE graph.solved_points
\* one iteration of the while loop that reaches its for loop: an entry is
\* popped, its state is added to the settled set and its neighbours are relaxed
Expands(progs) == prog \in progs /\ pc = "loop" /\ pc' = "loop" /\ pops' = pops + 1

DistanceOf(sp, state) == IF prog = "amphipod" THEN Amphipod_dict_get(sp, state) ELSE sp[state]

\* C19: in the three searches an iteration of the loop never takes a state
\* out of the settled set and never changes the entry of a state settled
\* before it; the state it settles has the distance just popped as its
\* entry.  So the entry of a settled state is, for the rest of the search,
\* the distance at which the state was first popped.
C19_SettledEntryFinal ==
    [][Expands({"chitons", "hill", "amphipod"}) =>
          /\ SettledStates \subseteq SettledStates'
          /\ current'[2] \in SettledStates'
          /\ \A state \in SettledStates :
                DistanceOf(shortest_path', state) = DistanceOf(shortest_path, state)
          /\ current'[2] \notin SettledStates =>
                DistanceOf(shortest_path', current'[2]) = Some(current'[1])]_vars
\* chitons: the vertex just expanded has a settled neighbour whose entry the
\* test of line 136 would have rewritten with another value, had the
\* neighbour not been skipped
C19_Witness ==
    /\ prog = "chitons" /\ pc = "loop" /\ pops >= 3
    /\ \E n \in Chitons_get_neighbors(graph, current[2]) :
          /\ n \in graph.solved_points /\ n # current[2]
          /\ Chitons_improves(shortest_path[n], current[1] + grid_getitem(graph.risk_level, n))
          /\ shortest_path[n] # Some(current[1] + grid_getitem(graph.risk_level, n))

\* C20: while a search over non-negative costs runs, no entry of the frontier
\* has a distance below the recorded distance of a settled state, nor below
\* the distance of the entry popped last; so the distances of the entries
\* popped one after the other never decrease.
C20_FrontierAboveSettled ==
    (prog \in {"chitons", "hill", "amphipod"} /\ pc = "loop") =>
        \A e \in BagToSet(priority_queue) :
            /\ current # None => e[1] >= current[1]
            /\ \A state \in SettledStates :
                  /\ DistanceOf(shortest_path, state) # None
                  /\ e[1] >= DistanceOf(shortest_path, state)[1]
\* chitons: states are settled at two different distances, the frontier
\* holds entries of two distances, the smaller one equal to the largest
\* settled distance
C20_Witness ==
    /\ prog = "chitons" /\ pc = "loop"
    /\ Cardinality({shortest_path[p] : p \in graph.solved_points}) >= 2
    /\ Cardinality({e[1] : e \in BagToSet(priority_queue)}) >= 2
    /\ \E e \in BagToSet(priority_queue) : e[1] = current[1]

\* C21: an iteration of a search only improves the distance table: a state
\* that has an entry keeps one, no entry grows, and every write to a state
\* that has an entry (each write is followed by the push of the value written)
\* stores a strictly smaller value.
C21_TableOnlyImproves ==
    [][Expands({"chitons", "hill", "amphipod"}) =>
          /\ \A state \in DOMAIN shortest_path :
                DistanceOf(shortest_path, state) # None =>
                    /\ DistanceOf(shortest_path', state) # None
                    /\ DistanceOf(shortest_path', state)[1] <= DistanceOf(shortest_path, state)[1]
          /\ \A e \in BagToSet(priority_queue') :
                (/\ CopiesIn(e, priority_queue') > CopiesIn(e, priority_queue)
                 /\ DistanceOf(shortest_path, e[2]) # None) =>
                    e[1] < DistanceOf(shortest_path, e[2])[1]]_vars

\* C22: when a_star was called with a target, every entry of the map it
\* returns that is not None is the least number of steps from the start
\* point to that point, for the target and for every other point.
C22_EveryEntryShortest ==
    (HillReturned("find_shortest_path") /\ end_point # None) =>
        LET steps == StepsFrom(graph.elevation, start_arg, FALSE)
        IN  \A p \in DOMAIN ret :
                ret[p] # None => (p \in DOMAIN steps /\ ret[p] = Some(steps[p]))

\* ---- the edges of the amphipod game ----
\* the walk stands on a game state
InGame == prog = "game"

\* C23: every edge get_neighbors yields from a state of the game moves one
\* amphipod; its cost is positive and equals the steps of the burrow route
\* between the two locations times the energy of the amphipod's type, and no
\* location on that route is occupied.
C23_EdgeCost ==
    InGame =>
        \A nb \in Graph_get_neighbors(graph, current[1]) :
            LET state == current[1]
                old_loc == MoveOf(state, nb[1]).old_loc
                new_loc == MoveOf(state, nb[1]).new_loc
                amp == GameState_getitem(state, old_loc)
            IN  /\ Cardinality(Range(nb[1].amps) \ Range(state.amps)) = 1
                /\ nb[2] \in Nat /\ nb[2] > 0
                /\ nb[2] = BurrowSteps(old_loc, new_loc) * <<1, 10, 100, 1000>>[amp]
                /\ BurrowRoute(old_loc, new_loc) \cap Range(state.amps) = {}
\* an amphipod of type D can leave the bottom of the second room for the far
\* end of the hallway, past two other rooms: 8 steps, cost 8000
C23_Witness ==
    /\ InGame
    /\ \E nb \in Graph_get_neighbors(graph, current[1]) :
          /\ nb[2] = 8000
          /\ MoveOf(current[1], nb[1]) = [old_loc |-> "d", new_loc |-> "7"]

\* the locations of the amphipods of type t in a state
TypeLocations(state, t) ==
    LET n == Len(state.amps) \div Len(Amphipod)
    IN  {state.amps[i] : i \in ((t - 1) * n + 1)..(t * n)}

\* C24: every state of the game holds as many amphipods of each type as the
\* start state, on different locations; every move generate_movement yields
\* for an amphipod that get_neighbors moves goes to a free location, so that
\* the assertion of move_amp holds, and passes no occupied location.
C24_AmphipodsKept ==
    InGame =>
        LET state == current[1]
        IN  /\ Len(state.amps) = Len(start_arg.amps)
            /\ Cardinality(Range(state.amps)) = Len(state.amps)
            /\ \A t \in 1..Len(Amphipod) :
                  Cardinality(TypeLocations(state, t)) =
                      Cardinality(TypeLocations(start_arg, t))
            /\ \A location \in Range(state.amps) \ state.finished :
                  \A m \in Graph_generate_movement(graph, state, location) :
                      /\ Graph_move_allowed(state, m[1])
                      /\ BurrowRoute(location, m[1]) \cap Range(state.amps) = {}
\* after some moves an amphipod stands on hallway location 3, and the
\* amphipod on room location a can only go to the hallway locations left of it
C24_Witness ==
    /\ InGame /\ current[1] # start_arg
    /\ {"3", "a"} \subseteq Range(current[1].amps)
    /\ "a" \notin current[1].finished
    /\ {m[1] : m \in Graph_generate_movement(graph, current[1], "a")} = {"1", "2"}

\* a location is finished when an amphipod of the room's type stands on it
\* and on every location of the room below it
FinishedLocations(state) ==
    UNION {{ROOMS[t][k] : k \in {k \in 1..Len(ROOMS[t]) :
                \A j \in k..Len(ROOMS[t]) : ROOMS[t][j] \in TypeLocations(state, t)}} :
           t \in 1..Len(Amphipod)}

\* C25: along every edge of get_neighbors the finished set only grows: the
\* amphipod moved did not stand on a finished location, every finished
\* location keeps its amphipod, and the finished set of the new state (the
\* set make_state computes, which is the set of the finished locations as
\* defined above) contains that of the old state.
C25_FinishedGrows ==
    [][InGame =>
          /\ current[1].finished = FinishedLocations(current[1])
          /\ current'[1].finished = FinishedLocations(current'[1])
          /\ MoveOf(current[1], current'[1]).old_loc \notin current[1].finished
          /\ \A location \in current[1].finished :
                GameState_getitem(current'[1], location) =
                    GameState_getitem(current[1], location)
          /\ current[1].finished \subseteq current'[1].finished]_vars
\* from the example burrow, where only b and f are finished, the walk has
\* come to a state with six finished locations and a seventh amphipod waiting
\* in the hallway
C25_Witness ==
    /\ InGame
    /\ start_arg.finished = {"b", "f"}
    /\ Cardinality(current[1].finished) = 6
    /\ \E location \in Range(current[1].amps) : InHallway(location)

\* the room of type t holds an amphipod of another type
RoomHoldsStranger(state, t) ==
    \E location \in Range(ROOMS[t]) : \E u \in 1..Len(Amphipod) :
        u # t /\ location \in TypeLocations(state, u)

\* C26: for every amphipod of every state of the game, generate_movement
\* yields only moves to another location that lead from a room to the
\* hallway, or from the hallway into the room of the amphipod's type while
\* that room holds no amphipod of another type.
C26_OnlyLegalMoves ==
    InGame =>
        \A location \in Range(current[1].amps) :
            \A m \in Graph_generate_movement(graph, current[1], location) :
                LET amp == GameState_getitem(current[1], location)
                IN  /\ m[1] # location
                    /\ ~InHallway(location) => InHallway(m[1])
                    /\ InHallway(location) =>
                          /\ m[1] \in Range(ROOMS[amp])
                          /\ ~RoomHoldsStranger(current[1], amp)
\* an amphipod in the hallway has a free way to the door of its room and gets
\* no move, because another type still stands in the room, while another
\* amphipod in the hallway can go home
C26_Witness ==
    /\ InGame
    /\ \E location \in Range(current[1].amps) :
          LET amp == GameState_getitem(current[1], location)
          IN  /\ InHallway(location)
              /\ RoomHoldsStranger(current[1], amp)
              /\ BurrowRoute(location, ROOMS[amp][1]) \cap Range(current[1].amps) = {}
              /\ Graph_generate_movement(graph, current[1], location) = {}
    /\ \E location \in Range(current[1].amps) :
          /\ InHallway(location)
          /\ Graph_generate_movement(graph, current[1], location) # {}

\* the integers of a range
PointsOf(range) == {i \in range.min..range.max : TRUE}

\* C27: a call r.split(s) on two ranges with a common point does not fail,
\* and the list it returns holds ranges that are not empty, each starting
\* right after the one before it, the first at r.min and the last ending at
\* r.max (so they are disjoint, ascending and cover exactly r), one of them
\* the set of the common points of r and s.
C27_SplitCoversRange ==
    (prog = "split" /\ extracted.done) =>
        LET r == extracted.self
            s == extracted.other
            parts == extracted.value
        IN  /\ pc # "raised"
            /\ Len(parts) >= 1
            /\ \A i \in 1..Len(parts) : parts[i].min <= parts[i].max
            /\ parts[1].min = r.min /\ parts[Len(parts)].max = r.max
            /\ \A i \in 1..(Len(parts) - 1) : parts[i + 1].min = parts[i].max + 1
            /\ \E i \in 1..Len(parts) : PointsOf(parts[i]) = PointsOf(r) \cap PointsOf(s)

\* C28: Grid.move_herd and Grid.move conserve the herd.  After the grid is
\* parsed and after every step it holds as many east-facing and as many
\* south-facing cucumbers as the input, each on a cell of its own (the dict
\* has one key per cucumber) inside the grid of the input's width and
\* height; and in each herd step of a move, the east herd first and the south
\* herd on the grid the east herd left, a cucumber moves exactly when its
\* wrapped target cell was empty before that herd step began, the count
\* returned being the number of cucumbers that moved.
C28_HerdConserved ==
    [][prog = "cucumber" =>
          /\ HerdSize(cucumber_grid'.cucumbers, ">") = HerdSizeIn(cucumber_input, ">")
          /\ HerdSize(cucumber_grid'.cucumbers, "v") = HerdSizeIn(cucumber_input, "v")
          /\ cucumber_grid'.width = Len(cucumber_input[1])
          /\ cucumber_grid'.height = Len(cucumber_input)
          /\ DOMAIN cucumber_grid'.cucumbers \subseteq
                 (0..(cucumber_grid'.width - 1)) \X (0..(cucumber_grid'.height - 1))
          /\ pc = "loop" =>
                LET east == CucumberGrid_move_herd(cucumber_grid, Direction_EAST)
                    south == CucumberGrid_move_herd(east.grid, Direction_SOUTH)
                IN  /\ HerdStep(cucumber_grid, east.grid, ">")
                    /\ HerdStep(east.grid, cucumber_grid', "v")
                    /\ east.moved_count = Cardinality(MoversOf(cucumber_grid, ">"))
                    /\ south.moved_count = Cardinality(MoversOf(east.grid, "v"))
                    /\ CucumberGrid_move(cucumber_grid).moved_count =
                           east.moved_count + south.moved_count]_vars
\* the grid after at least two steps, with both herds, about to make a step
\* in which a cucumber of the east herd goes round the edge, another is held
\* up by a cucumber in its target cell, and a cucumber of the south herd
\* moves onto a cell that the east herd has just left
C28_Witness ==
    /\ prog = "cucumber" /\ pc = "loop" /\ step >= 3
    /\ LET east == CucumberGrid_move_herd(cucumber_grid, Direction_EAST)
       IN  /\ \E p \in MoversOf(cucumber_grid, ">") : p[1] = cucumber_grid.width - 1
           /\ \E p \in DOMAIN cucumber_grid.cucumbers :
                 /\ cucumber_grid.cucumbers[p] = ">"
                 /\ p \notin MoversOf(cucumber_grid, ">")
           /\ \E p \in MoversOf(east.grid, "v") :
                 TargetCell(east.grid, p, "v") \in MoversOf(cucumber_grid, ">")

====
